---- MODULE Spec2Model ----
(***************************************************************************)
(* GrugTok (arxiv-reel): the paper ingestion pipeline of                   *)
(* src/app/api/papers/route.ts (searchArxivPapers, processPaperWithLLM,    *)
(* GET /papers), the content fetcher of                                    *)
(* src/app/api/papers/[id]/content/route.ts (fetchFullPaperContent) and    *)
(* the client component Home.                                              *)
(*                                                                         *)
(* These specifications share the variables:                               *)
(*   SpecSearch  searchArxivPapers called with a count and an offset,      *)
(*               upstream answering each of the five queries;              *)
(*   SpecEnrich  processPaperWithLLM applied to one paper, over every      *)
(*               completion outcome of the alphabet;                       *)
(*   Spec        GET /papers end to end (search, concurrent enrichment,    *)
(*               envelope) and the client's fetchPapers / fetchMorePapers; *)
(*   SpecContent fetchFullPaperContent called on a paper id, upstream      *)
(*               serving a source document and an HTML page;               *)
(*   SpecContentGET  GET /papers/{id}/content around it;                   *)
(*   SpecClient  the client's handlers and awaited fetches, the server     *)
(*               answering with pages of papers.                           *)
(***************************************************************************)
EXTENDS Integers, Sequences, FiniteSets, TLC

\* ------------------------------------------------------------------ bounds
\* Awaited fetches of fetchPapers at a time.
MaxRefreshes == 1
\* Length the client's list is let grow to.
MaxPapers == 12
\* Raw entries upstream returns over the five queries of one search.
MaxEntries == 3

\* ------------------------------------------------------- program constants
NumQueries == 5
AbstractMinLength == 100
DefaultLimit == 30
DefaultOffset == 0
InitialPageLimit == 10
MorePageLimit == 20

VARIABLES
  pc,          \* position of the request being served
  maxResults,  \* searchArxivPapers: parameter maxResults
  offset,      \* searchArxivPapers: parameter offset
  qi,          \* searchArxivPapers: index of the query whose fetch is awaited
  allPapers,   \* searchArxivPapers: allPapers
  seenIds,     \* searchArxivPapers: seenIds
  papers,      \* what searchArxivPapers returned
  threwAt,     \* the query whose fetch threw (0: none)
  nEntries,    \* raw entries consumed so far
  firstEntry,  \* history: id -> paper built from the first raw entry with that id
  firstLong,   \* history: id -> paper built from the first raw entry with that id
               \*          whose normalized abstract is longer than 100
  dropped,     \* history: entries with a long abstract dropped for a seen id
  calls,       \* GET: one slot per paper of papers.map(processPaperWithLLM):
               \*      Pending, or the outcome of the completion call and what
               \*      processPaperWithLLM settled with
  query,       \* GET: searchParams.get('limit') and .get('offset')
  origin,      \* who sent the request: fetchPapers, fetchMorePapers, or another caller
  response,    \* GET: <<>> or <<the response sent>>
  clientLen,   \* client: papers.length (the handlers modelled read nothing else of papers)
  hasMore,     \* client: hasMore
  isLoading,   \* client: isLoading
  loadingMore, \* client: loadingMore
  arxivId,     \* fetchFullPaperContent: parameter arxivId
  eprint,      \* what upstream serves at https://arxiv.org/e-print/{arxivId}
  htmlDoc,     \* what upstream serves at https://arxiv.org/html/{arxivId}
  fpc,         \* fetchFullPaperContent: the strategy whose fetch is awaited, or "done"
  requests,    \* fetchFullPaperContent: the URLs requested so far, in order
  got,         \* history: per finished strategy, the response and what the strategy did
  result,      \* fetchFullPaperContent: <<>> or <<how the call ended>>
  clientPapers,   \* client: papers
  bookmarks,      \* client: bookmarks
  currentIndex,   \* client: currentIndex
  isFlipped,      \* client: isFlipped
  showBookmarks,  \* client: showBookmarks
  loadingContent, \* client: loadingContent (<<>> is null)
  storage,        \* localStorage: the 'arxiv-bookmarks' entry (<<>> when not set)
  inFlight        \* client: the awaited fetches, each with what its handler closed over

searchVars == <<maxResults, offset, qi, allPapers, seenIds, papers, threwAt,
                nEntries, firstEntry, firstLong, dropped>>
getVars == <<query, origin, response>>
clientVars == <<clientLen, hasMore, isLoading, loadingMore>>
fetcherVars == <<arxivId, eprint, htmlDoc, fpc, requests, got, result>>
viewVars == <<clientPapers, bookmarks, currentIndex, isFlipped, showBookmarks, loadingContent,
              storage, inFlight>>
restVars == <<fetcherVars, viewVars>>
vars == <<pc, searchVars, calls, getVars, clientVars, restVars>>

\* ------------------------------------------------------------ JS helpers
\* A regular-expression match is <<>> (null) or <<captured group>>.
NoMatch == <<>>

\* String.prototype.split('/') of an <id> URL, already split.
UrlA1 == <<"http:", "", "arxiv.org", "abs", "a">>
UrlA2 == <<"https:", "", "export.arxiv.org", "abs", "a">>
UrlB == <<"http:", "", "arxiv.org", "abs", "b">>

\* idMatch[1].split('/').pop()
LastSegment(url) == url[Len(url)]

\* A text of `chars` characters once whitespace runs are collapsed and the ends
\* trimmed, carrying `ws` whitespace characters that normalisation removes.
Text(chars, ws) == [chars |-> chars, ws |-> ws]
EmptyText == Text(0, 0)
\* .replace(/\s+/g, ' ').trim()
NormalizeWs(t) == [chars |-> t.chars, ws |-> 0]
\* .length
Length(t) == t.chars + t.ws

\* new Date().toISOString(), evaluated while the entry is parsed.
NowIso == "now"
\* new Date(s).getTime(): a number, or NaN for a string Date cannot parse.
GetTime(s) ==
  CASE s = "2024-01-01T00:00:00Z" -> [nan |-> FALSE, t |-> 1704067200]
    [] s = "2024-06-01T00:00:00Z" -> [nan |-> FALSE, t |-> 1717200000]
    [] s = NowIso -> [nan |-> FALSE, t |-> 1790000000]
    [] OTHER -> [nan |-> TRUE, t |-> 0]

\* `paper_${Math.random()}`, r the value Math.random() returned.
RandomId(r) == "paper_0." \o ToString(r)

\* ----------------------------------------------------------- Entry Parser
\* Lines 79-102 for one raw entry, given by the matches of its five regular
\* expressions and the value Math.random() returns when line 88 calls it.
ArxivId(e) == IF e.idMatch # NoMatch THEN LastSegment(e.idMatch[1]) ELSE RandomId(e.rand)

Abstract(e) == IF e.abstractMatch # NoMatch THEN NormalizeWs(e.abstractMatch[1]) ELSE EmptyText

BuildPaper(e) ==
  [id |-> ArxivId(e),
   title |-> IF e.titleMatch # NoMatch THEN NormalizeWs(e.titleMatch[1]) ELSE Text(13, 0),
   authors |-> e.authorMatches,
   abstract |-> Abstract(e),
   arxivUrl |-> IF e.idMatch # NoMatch THEN e.idMatch[1]
                ELSE <<"https:", "", "arxiv.org", "abs", ArxivId(e)>>,
   publishedAt |-> IF e.publishedMatch # NoMatch THEN e.publishedMatch[1] ELSE NowIso]

\* Line 93: the guard under which the entry is pushed.
KeepEntryNoDedup(seen, e) == Length(Abstract(e)) > AbstractMinLength
KeepEntryShortOk(seen, e) == ArxivId(e) \notin seen /\ Length(Abstract(e)) >= AbstractMinLength
KeepEntry(seen, e) == ArxivId(e) \notin seen /\ Length(Abstract(e)) > AbstractMinLength

\* Lines 78-104: the inner loop over the entries of one response, on the
\* pair <<allPapers, seenIds>>.
RECURSIVE ParseEntries(_, _)
ParseEntries(acc, entries) ==
  IF entries = <<>> THEN acc
  ELSE LET e == Head(entries)
           next == IF KeepEntry(acc[2], e)
                   THEN <<Append(acc[1], BuildPaper(e)), acc[2] \cup {ArxivId(e)}>>
                   ELSE acc
       IN ParseEntries(next, Tail(entries))

\* ------------------------------------------------------------------ sort
\* Line 109: the comparator handed to Array.prototype.sort.
Comparefn(a, b) ==
  LET ta == GetTime(a.publishedAt)
      tb == GetTime(b.publishedAt)
  IN IF ta.nan \/ tb.nan THEN [nan |-> TRUE, t |-> 0] ELSE [nan |-> FALSE, t |-> tb.t - ta.t]

\* Array.prototype.sort calls the comparator and reads NaN as +0.
SortCompare(x, y) == LET v == Comparefn(x, y) IN IF v.nan THEN 0 ELSE v.t

\* Array.prototype.sort as the engine runs it on an array shorter than 64
\* elements: the leading run is found (a strictly descending one is reversed)
\* and the rest is placed by binary insertion. With a consistent comparator this
\* is the stable sort ECMAScript requires.
RECURSIVE RunEnd(_, _, _)
RunEnd(s, idx, desc) ==
  IF idx > Len(s) THEN Len(s)
  ELSE LET order == SortCompare(s[idx], s[idx - 1])
       IN IF (desc /\ order >= 0) \/ (~desc /\ order < 0) THEN idx - 1
          ELSE RunEnd(s, idx + 1, desc)

RECURSIVE BinarySearch(_, _, _, _)
BinarySearch(s, pivot, left, right) ==
  IF left >= right THEN left
  ELSE LET mid == left + ((right - left) \div 2)
       IN IF SortCompare(pivot, s[mid]) < 0 THEN BinarySearch(s, pivot, left, mid)
          ELSE BinarySearch(s, pivot, mid + 1, right)

InsertAt(s, start, pos) ==
  [i \in 1..Len(s) |->
     IF i < pos THEN s[i] ELSE IF i = pos THEN s[start] ELSE IF i <= start THEN s[i - 1] ELSE s[i]]

RECURSIVE BinaryInsertionSort(_, _)
BinaryInsertionSort(s, start) ==
  IF start > Len(s) THEN s
  ELSE BinaryInsertionSort(InsertAt(s, start, BinarySearch(s, s[start], 1, start)), start + 1)

ArraySort(s) ==
  IF Len(s) < 2 THEN s
  ELSE LET desc == SortCompare(s[2], s[1]) < 0
           run == RunEnd(s, 3, desc)
           s1 == IF desc
                 THEN [i \in 1..Len(s) |-> IF i <= run THEN s[run + 1 - i] ELSE s[i]]
                 ELSE s
       IN BinaryInsertionSort(s1, run + 1)

\* Array.prototype.slice(0, end)
Slice(s, end) ==
  LET k == IF end < 0 THEN (IF Len(s) + end < 0 THEN 0 ELSE Len(s) + end)
           ELSE (IF end > Len(s) THEN Len(s) ELSE end)
  IN SubSeq(s, 1, k)

\* Lines 108-110: sort by recency and limit the results.
SortAndLimit(list, n) == Slice(ArraySort(list), n)

\* ------------------------------------------------- upstream: raw entries
LongSummary == Text(AbstractMinLength + 1, 0)
\* 100 characters once normalised, 103 as received.
EdgeSummary == Text(AbstractMinLength, 3)

RawEntry(idm, sm, pm, r) ==
  [titleMatch |-> <<Text(5, 2)>>, authorMatches |-> <<"A. Author">>,
   abstractMatch |-> sm, idMatch |-> idm, publishedMatch |-> pm, rand |-> r]

T1 == "2024-01-01T00:00:00Z"
T2 == "2024-06-01T00:00:00Z"

\* Entries of the search specification. Those that pass line 93: two ids, one
\* of them under two URLs, with every kind of <published>, and entries without
\* an <id>. Those line 93 discards: no <summary>, or one of 100 characters.
SearchEntries ==
  {RawEntry(<<u>>, <<LongSummary>>, pm, 0) :
      u \in {UrlA1, UrlB}, pm \in {<<T1>>, <<T2>>, <<"garbage">>, NoMatch}}
  \cup {RawEntry(<<UrlA2>>, <<LongSummary>>, <<T1>>, 0)}
  \cup {RawEntry(NoMatch, <<LongSummary>>, pm, 0) : pm \in {<<T1>>, <<T2>>}}
  \cup {RawEntry(<<UrlA1>>, sm, <<T2>>, 0) : sm \in {NoMatch, <<EdgeSummary>>}}
  \cup {RawEntry(NoMatch, NoMatch, NoMatch, 0)}

SeqsUpTo(S, n) == UNION {[1..k -> S] : k \in 0..n}

\* Math.random() returns a value it has not returned before: the entry's number
\* in the order of arrival, `base` entries having arrived earlier.
WithRandom(entries, base) == [k \in 1..Len(entries) |-> [entries[k] EXCEPT !.rand = base + k]]

\* ----------------------------------------------------- searchArxivPapers
NoPaper == <<>>
Ids == {"a", "b"} \cup {RandomId(r) : r \in 1..MaxEntries}

RECURSIVE Note(_, _, _)
\* History: the paper built from the first entry of each id among those
\* satisfying `long` (all entries when long is FALSE).
Note(first, entries, long) ==
  IF entries = <<>> THEN first
  ELSE LET e == Head(entries)
           take == first[ArxivId(e)] = NoPaper
                   /\ (long => Length(Abstract(e)) > AbstractMinLength)
       IN Note(IF take THEN [first EXCEPT ![ArxivId(e)] = <<BuildPaper(e)>>] ELSE first,
               Tail(entries), long)

RECURSIVE Duplicates(_, _)
\* History: how many of `entries` have a long abstract and an id seen before.
Duplicates(seen, entries) ==
  IF entries = <<>> THEN 0
  ELSE LET e == Head(entries)
           long == Length(Abstract(e)) > AbstractMinLength
       IN (IF long /\ ArxivId(e) \in seen THEN 1 ELSE 0)
          + Duplicates(IF long THEN seen \cup {ArxivId(e)} ELSE seen, Tail(entries))

\* Lines 55-68: the call. The first query's fetch is issued.
SearchCall(n, off) ==
  /\ maxResults' = n
  /\ offset' = off
  /\ qi' = 1
  /\ allPapers' = <<>>
  /\ seenIds' = {}
  /\ papers' = <<>>
  /\ threwAt' = 0
  /\ nEntries' = 0
  /\ firstEntry' = [i \in Ids |-> NoPaper]
  /\ firstLong' = [i \in Ids |-> NoPaper]
  /\ dropped' = 0

\* Lines 72-110: the awaited fetch of query qi resolves (whatever its status)
\* with a text holding `entries`; they are parsed; after the last query the
\* result is sorted, sliced and returned, otherwise the next fetch is issued.
QueryResponds(Entries) ==
  /\ pc = "search"
  /\ \E raw \in SeqsUpTo(Entries, MaxEntries - nEntries) :
       LET entries == WithRandom(raw, nEntries)
           acc == ParseEntries(<<allPapers, seenIds>>, entries)
       IN /\ allPapers' = acc[1]
          /\ seenIds' = acc[2]
          /\ nEntries' = nEntries + Len(entries)
          /\ firstEntry' = Note(firstEntry, entries, FALSE)
          /\ firstLong' = Note(firstLong, entries, TRUE)
          /\ dropped' = dropped + Duplicates(seenIds, entries)
          /\ IF qi = NumQueries
             THEN /\ papers' = SortAndLimit(acc[1], maxResults)
                  /\ pc' = "returned"
                  /\ qi' = qi
             ELSE /\ papers' = papers
                  /\ pc' = pc
                  /\ qi' = qi + 1
  /\ UNCHANGED <<maxResults, offset, threwAt, calls, getVars, clientVars, restVars>>

\* Lines 112-115: the fetch of query qi (or reading its body) throws; the one
\* try block around the whole loop catches it and [] is returned.
QueryThrows ==
  /\ pc = "search"
  /\ threwAt' = qi
  /\ papers' = <<>>
  /\ pc' = "returned"
  /\ UNCHANGED <<maxResults, offset, qi, allPapers, seenIds, nEntries, firstEntry,
                 firstLong, dropped, calls, getVars, clientVars, restVars>>

\* Lines 179-187 of the client: the state hooks' initial values.
Mounted ==
  /\ clientLen = 0
  /\ hasMore = TRUE
  /\ isLoading = TRUE
  /\ loadingMore = FALSE

NoRequest ==
  /\ query = [limit |-> <<>>, offset |-> <<>>]
  /\ origin = "none"
  /\ response = <<>>

\* fetchFullPaperContent has not been called.
NoContentCall ==
  /\ arxivId = ""
  /\ eprint = <<>>
  /\ htmlDoc = <<>>
  /\ fpc = "idle"
  /\ requests = <<>>
  /\ got = <<>>
  /\ result = <<>>

\* Client lines 179-187, 191: the other state hooks' initial values, nothing
\* stored and nothing awaited.
ViewMounted ==
  /\ clientPapers = <<>>
  /\ bookmarks = <<>>
  /\ currentIndex = 0
  /\ isFlipped = FALSE
  /\ showBookmarks = FALSE
  /\ loadingContent = <<>>
  /\ storage = <<>>
  /\ inFlight = <<>>

SearchCounts == {0, 2, DefaultLimit}

InitSearch ==
  /\ pc = "search"
  /\ maxResults \in SearchCounts
  /\ offset \in {DefaultOffset}
  /\ qi = 1
  /\ allPapers = <<>>
  /\ seenIds = {}
  /\ papers = <<>>
  /\ threwAt = 0
  /\ nEntries = 0
  /\ firstEntry = [i \in Ids |-> NoPaper]
  /\ firstLong = [i \in Ids |-> NoPaper]
  /\ dropped = 0
  /\ calls = <<>>
  /\ Mounted
  /\ NoRequest
  /\ NoContentCall
  /\ ViewMounted

QuerySearchResponds == QueryResponds(SearchEntries)

NextSearch == QuerySearchResponds \/ QueryThrows

SpecSearch == InitSearch /\ [][NextSearch]_vars

\* ------------------------------------------------------------- JS values
\* A JavaScript value as JSON.parse yields it, by type; `str` is the text of a
\* string or number. JsUndefined is what reading a missing property gives.
JsString(x) == [type |-> "string", str |-> x]
JsUndefined == [type |-> "undefined", str |-> ""]
JsNull == [type |-> "null", str |-> ""]
JsZero == [type |-> "number", str |-> "0"]
JsEmptyArray == [type |-> "array", str |-> ""]

\* ToBoolean
Truthy(v) ==
  /\ v.type \notin {"undefined", "null"}
  /\ ~(v.type = "string" /\ v.str = "")
  /\ ~(v.type = "number" /\ v.str = "0")

\* a || b
OrElseAlways(v, d) == d
OrElseNever(v, d) == v
OrElse(v, d) == IF Truthy(v) THEN v ELSE d

FieldNames == {"tag", "question", "answer", "bet"}

\* Lines 173-176: the defaults.
DefaultOf(f) ==
  CASE f = "tag" -> JsString("ML research")
    [] f = "question" -> JsString("Q: Research question not extracted")
    [] f = "answer" -> JsString("A: Core idea not extracted")
    [] f = "bet" -> JsString("Philosophical assumption not extracted")

\* --------------------------------------------------- completion texts
\* A completion text is a sequence of parts: a markdown fence, whitespace,
\* prose, or the JSON text of one value. The value of a JSON part is given by
\* its type and, for an object, its four properties of interest (JsUndefined
\* for a key the object lacks).
NoFields == [f \in FieldNames |-> JsUndefined]
Part(kind, text) == [kind |-> kind, text |-> text, type |-> "", fields |-> NoFields]
\* Three backticks followed by "json" and a newline; three backticks alone; a
\* newline followed by three backticks.
FenceOpenJson == Part("fence", "(3 backticks)json(newline)")
FenceOpen == Part("fence", "(3 backticks)")
FenceClose == Part("fence", "(newline)(3 backticks)")
Whitespace == Part("ws", "(newline)")
Prose == Part("prose", "Here is the analysis:")
JsonOf(type, fields) == [kind |-> "json", text |-> "", type |-> type, fields |-> fields]
JsonObject(fields) == JsonOf("object", fields)

\* Line 181: every fence is replaced by '' and the result trimmed.
CleanResponseKeepFences(text) == text
CleanResponse(text) ==
  LET stripped == SelectSeq(text, LAMBDA part : part.kind # "fence")
      Lead(t) == CHOOSE k \in 0..Len(t) :
                   /\ \A i \in 1..k : t[i].kind = "ws"
                   /\ (k < Len(t) => t[k + 1].kind # "ws")
      Trail(t) == CHOOSE k \in 0..Len(t) :
                   /\ \A i \in (Len(t) - k + 1)..Len(t) : t[i].kind = "ws"
                   /\ (k < Len(t) => t[Len(t) - k].kind # "ws")
  IN IF Lead(stripped) = Len(stripped) THEN <<>>
     ELSE SubSeq(stripped, Lead(stripped) + 1, Len(stripped) - Trail(stripped))

\* Line 182: JSON.parse. A text parses when, whitespace aside, it is the JSON
\* text of one value; anything else is a SyntaxError.
JsonParse(text) ==
  LET body == SelectSeq(text, LAMBDA part : part.kind # "ws")
  IN IF Len(body) = 1 /\ body[1].kind = "json"
     THEN [ok |-> TRUE, type |-> body[1].type, fields |-> body[1].fields]
     ELSE [ok |-> FALSE, type |-> "", fields |-> NoFields]

\* extracted.f: a property read. Only an object has one of the four keys.
Property(extracted, f) == IF extracted.type = "object" THEN extracted.fields[f] ELSE JsUndefined

\* Lines 173-190: the four fields read from the completion content, <<>> for
\* undefined or null and <<text>> for a string. Reading a property of null
\* throws at line 183, before any assignment, and the catch of line 187 leaves
\* the defaults.
Defaults == [f \in FieldNames |-> DefaultOf(f)]
ExtractFields(responseContent) ==
  IF responseContent = <<>> \/ responseContent[1] = <<>> THEN Defaults
  ELSE LET extracted == JsonParse(CleanResponse(responseContent[1]))
       IN IF ~extracted.ok \/ extracted.type = "null" THEN Defaults
          ELSE [f \in FieldNames |-> OrElse(Property(extracted, f), DefaultOf(f))]

\* ------------------------------------------------- processPaperWithLLM
\* What the completion call did: the client constructor threw, create()
\* rejected, or it resolved with a completion whose choices[0]?.message?.content
\* is `content`.
CtorThrows == [kind |-> "ctorThrows", content |-> <<>>]
Rejects == [kind |-> "rejects", content |-> <<>>]
Resolves(content) == [kind |-> "resolves", content |-> content]

EnrichedRestamped(paper, fields) ==
  [id |-> paper.id, title |-> paper.title, authors |-> paper.authors,
   abstract |-> paper.abstract, arxivUrl |-> paper.arxivUrl, publishedAt |-> NowIso,
   tag |-> fields["tag"], question |-> fields["question"], answer |-> fields["answer"],
   bet |-> fields["bet"], content |-> <<"">>]
Enriched(paper, fields) ==
  [id |-> paper.id, title |-> paper.title, authors |-> paper.authors,
   abstract |-> paper.abstract, arxivUrl |-> paper.arxivUrl, publishedAt |-> paper.publishedAt,
   tag |-> fields["tag"], question |-> fields["question"], answer |-> fields["answer"],
   bet |-> fields["bet"], content |-> <<"">>]

\* Lines 119-219. `threw` tells whether the call rejected instead of returning.
ProcessPaperRethrows(paper, outcome) ==
  IF outcome.kind = "resolves"
  THEN [threw |-> FALSE, paper |-> <<Enriched(paper, ExtractFields(outcome.content))>>]
  ELSE [threw |-> TRUE, paper |-> <<>>]
ProcessPaperWithLLM(paper, outcome) ==
  IF outcome.kind = "resolves"
  THEN [threw |-> FALSE, paper |-> <<Enriched(paper, ExtractFields(outcome.content))>>]
  ELSE [threw |-> FALSE, paper |-> <<Enriched(paper, Defaults)>>]

\* ------------------------------------------------- completion alphabets
\* Values a property of the parsed object may have.
FieldValues == {JsUndefined, JsNull, JsString(""), JsString("x"), JsZero, JsEmptyArray}

\* The ways a JSON text comes wrapped: bare, in a ```json fence, in a plain
\* fence, between newlines.
Wrappings(j) ==
  {<<j>>, <<FenceOpenJson, j, FenceClose>>, <<FenceOpen, Whitespace, j, FenceClose>>,
   <<Whitespace, j, Whitespace>>}

\* Texts that are not the JSON text of one value.
BrokenTexts ==
  {<<Prose>>, <<Whitespace>>, <<Prose, FenceOpenJson, JsonObject(NoFields), FenceClose>>,
   <<JsonObject(NoFields), JsonObject(NoFields)>>}

NonObjects == {JsonOf(t, NoFields) : t \in {"null", "number", "string", "array"}}

\* Every outcome of the enrichment specification.
AllOutcomes ==
  {CtorThrows, Rejects, Resolves(<<>>), Resolves(<< <<>> >>)}
  \cup {Resolves(<<t>>) : t \in BrokenTexts}
  \cup {Resolves(<<t>>) : t \in UNION {Wrappings(j) : j \in NonObjects}}
  \cup {Resolves(<<t>>) :
          t \in UNION {Wrappings(JsonObject(fs)) : fs \in [FieldNames -> FieldValues]}}

FullObject ==
  [tag |-> JsString("x"), question |-> JsString("y"), answer |-> JsString("x"),
   bet |-> JsString("y")]

\* The outcomes of the GET specification: each way a call fails, each kind of
\* content, and objects with every field, no field, empty fields, no bet, and a
\* tag that is an empty array.
CoreOutcomes ==
  {CtorThrows, Rejects, Resolves(<<>>), Resolves(<< <<>> >>), Resolves(<< <<Prose>> >>),
   Resolves(<< <<JsonOf("null", NoFields)>> >>), Resolves(<< <<JsonOf("array", NoFields)>> >>),
   Resolves(<< <<JsonObject(FullObject)>> >>),
   Resolves(<< <<FenceOpenJson, JsonObject(FullObject), FenceClose>> >>),
   Resolves(<< <<JsonObject(NoFields)>> >>),
   Resolves(<< <<JsonObject([f \in FieldNames |-> JsString("")])>> >>),
   Resolves(<< <<JsonObject([FullObject EXCEPT !["bet"] = JsUndefined])>> >>),
   Resolves(<< <<JsonObject([FullObject EXCEPT !["tag"] = JsEmptyArray])>> >>)}

\* ------------------------------------------------------------ GET /papers
Pending == <<>>

\* parseInt(searchParams.get(name) || fallback): a parameter is <<>> when the
\* URL lacks it and <<n>> when it carries the decimal text of n.
ParamOr(param, fallback) == IF param = <<>> THEN fallback ELSE param[1]

\* Lines 235-241: the envelope.
EnvelopeStrictlyMore(processedPapers, limit, off) ==
  [status |-> 200,
   body |-> [papers |-> processedPapers, total |-> Len(processedPapers), offset |-> off,
             hasMore |-> Len(processedPapers) > limit,
             categories |-> <<"cs.AI", "cs.LG", "cs.CL", "cs.CV", "cs.NE", "stat.ML", "cs.IR",
                              "cs.HC", "cs.CR">>]]
Envelope(processedPapers, limit, off) ==
  [status |-> 200,
   body |-> [papers |-> processedPapers, total |-> Len(processedPapers), offset |-> off,
             hasMore |-> Len(processedPapers) >= limit,
             categories |-> <<"cs.AI", "cs.LG", "cs.CL", "cs.CV", "cs.NE", "stat.ML", "cs.IR",
                              "cs.HC", "cs.CR">>]]

\* Lines 244-247.
ErrorResponse == [status |-> 500, body |-> [error |-> "Failed to fetch papers"]]

\* Lines 221-228: GET is called; the parameters are parsed and searchArxivPapers
\* is called with them.
GETCalled(from, limitParam, offsetParam) ==
  /\ pc = "idle"
  /\ pc' = "search"
  /\ query' = [limit |-> limitParam, offset |-> offsetParam]
  /\ origin' = from
  /\ response' = <<>>
  /\ calls' = <<>>
  /\ SearchCall(ParamOr(limitParam, DefaultLimit), ParamOr(offsetParam, DefaultOffset))

\* Lines 228-233: searchArxivPapers has returned; processPaperWithLLM is called
\* on every paper, each call running up to its awaited completion request.
\* The locals of searchArxivPapers are gone.
StartEnrichment ==
  /\ pc = "returned"
  /\ pc' = "enrich"
  /\ calls' = [i \in 1..Len(papers) |-> Pending]
  /\ allPapers' = <<>>
  /\ seenIds' = {}
  /\ nEntries' = 0
  /\ firstEntry' = [i \in Ids |-> NoPaper]
  /\ firstLong' = [i \in Ids |-> NoPaper]
  /\ dropped' = 0
  /\ UNCHANGED <<maxResults, offset, qi, papers, threwAt, getVars, clientVars, restVars>>

\* Lines 154-218: the completion request of call i settles with `outcome` and
\* processPaperWithLLM runs to its end; `nth` records that it was the nth call
\* to settle.
CallSettles(Outcomes) ==
  /\ pc = "enrich"
  /\ \E i \in 1..Len(calls), outcome \in Outcomes :
       /\ calls[i] = Pending
       /\ calls' = [calls EXCEPT ![i] = <<[outcome |-> outcome,
                                           result |-> ProcessPaperWithLLM(papers[i], outcome),
                                           nth |-> Cardinality({j \in 1..Len(calls) :
                                                                 calls[j] # Pending}) + 1]>>]
  /\ UNCHANGED <<pc, searchVars, getVars, clientVars, restVars>>

Settled(i) == calls[i] # Pending
Threw(i) == Settled(i) /\ calls[i][1].result.threw

\* Lines 231-247: Promise.all settles: it rejects as soon as one call has
\* rejected, and the catch answers 500; it resolves once every call has, and
\* the envelope is sent.
RespondWithSettled ==
  /\ pc = "enrich"
  /\ \E i \in 1..Len(calls) : calls[i] # Pending
  /\ pc' = "responded"
  /\ response' =
       <<Envelope([i \in 1..Cardinality({j \in 1..Len(calls) : calls[j] # Pending}) |->
                    calls[CHOOSE j \in 1..Len(calls) : calls[j] # Pending /\ calls[j][1].nth = i][1]
                      .result.paper[1]],
                  ParamOr(query.limit, DefaultLimit), ParamOr(query.offset, DefaultOffset))>>
  /\ UNCHANGED <<searchVars, calls, query, origin, clientVars, restVars>>
Respond ==
  /\ pc = "enrich"
  /\ \/ \E i \in 1..Len(calls) : Threw(i)
     \/ \A i \in 1..Len(calls) : Settled(i)
  /\ pc' = "responded"
  /\ response' =
       IF \E i \in 1..Len(calls) : Threw(i) THEN <<ErrorResponse>>
       ELSE <<Envelope([i \in 1..Len(calls) |-> calls[i][1].result.paper[1]],
                       ParamOr(query.limit, DefaultLimit), ParamOr(query.offset, DefaultOffset))>>
  /\ UNCHANGED <<searchVars, calls, query, origin, clientVars, restVars>>

\* ----------------------------------------------------------------- client
\* Client lines 204-207: fetchPapers up to its awaited fetch.
FetchPapers ==
  /\ isLoading' = TRUE
  /\ UNCHANGED <<clientLen, hasMore, loadingMore, restVars>>
  /\ GETCalled("fetchPapers", <<InitialPageLimit>>, <<>>)

\* Client lines 219-225: fetchMorePapers up to its awaited fetch. The Load More
\* button that calls it is rendered (client lines 367-390, 614) when the list
\* is shown and not empty.
FetchMorePapers ==
  /\ ~isLoading /\ clientLen > 0
  /\ ~(loadingMore \/ ~hasMore)
  /\ loadingMore' = TRUE
  /\ UNCHANGED <<clientLen, hasMore, isLoading, restVars>>
  /\ GETCalled("fetchMorePapers", <<MorePageLimit>>, <<clientLen>>)

\* Another caller of the endpoint, with or without parameters.
OtherLimits == {<<>>, <<0>>, <<1>>, <<2>>}
OtherOffsets == {<<>>, <<4>>}
OtherRequest ==
  /\ \E l \in OtherLimits, o \in OtherOffsets : GETCalled("other", l, o)
  /\ UNCHANGED <<clientVars, restVars>>

\* Client lines 208-216: fetchPapers from the response on.
FetchPapersDone(r) ==
  /\ isLoading' = FALSE
  /\ loadingMore' = loadingMore
  /\ IF r.status = 200
     THEN /\ clientLen' = Len(r.body.papers)
          /\ hasMore' = (Len(r.body.papers) >= InitialPageLimit)
     ELSE UNCHANGED <<clientLen, hasMore>>

\* Client lines 226-239: fetchMorePapers from the response on.
FetchMorePapersDoneKeepsMore(r) ==
  /\ loadingMore' = FALSE
  /\ isLoading' = isLoading
  /\ IF r.status = 200 /\ Len(r.body.papers) > 0
     THEN /\ clientLen' = clientLen + Len(r.body.papers)
          /\ hasMore' = (Len(r.body.papers) >= MorePageLimit)
     ELSE UNCHANGED <<clientLen, hasMore>>
FetchMorePapersDoneNoFinally(r) ==
  /\ loadingMore' = (r.status # 200 /\ loadingMore)
  /\ isLoading' = isLoading
  /\ IF r.status = 200
     THEN IF Len(r.body.papers) > 0
          THEN /\ clientLen' = clientLen + Len(r.body.papers)
               /\ hasMore' = (Len(r.body.papers) >= MorePageLimit)
          ELSE /\ clientLen' = clientLen
               /\ hasMore' = FALSE
     ELSE UNCHANGED <<clientLen, hasMore>>
FetchMorePapersDone(r) ==
  /\ loadingMore' = FALSE
  /\ isLoading' = isLoading
  /\ IF r.status = 200
     THEN IF Len(r.body.papers) > 0
          THEN /\ clientLen' = clientLen + Len(r.body.papers)
               /\ hasMore' = (Len(r.body.papers) >= MorePageLimit)
          ELSE /\ clientLen' = clientLen
               /\ hasMore' = FALSE
     ELSE UNCHANGED <<clientLen, hasMore>>

\* The response reaches its caller; the request is over and what it held is
\* gone (threwAt, query and origin stay as the record of the last request).
ResponseReceived ==
  /\ pc = "responded"
  /\ pc' = "idle"
  /\ CASE origin = "fetchPapers" -> FetchPapersDone(response[1])
       [] origin = "fetchMorePapers" -> FetchMorePapersDone(response[1])
       [] OTHER -> UNCHANGED clientVars
  /\ response' = <<>>
  /\ calls' = <<>>
  /\ papers' = <<>>
  /\ UNCHANGED <<maxResults, offset, qi, allPapers, seenIds, threwAt, nEntries, firstEntry,
                 firstLong, dropped, query, origin, restVars>>

\* A first page of ten papers was loaded: hasMore is true (client line 211).
PageLoaded ==
  /\ clientLen = InitialPageLimit
  /\ hasMore = TRUE
  /\ isLoading = FALSE
  /\ loadingMore = FALSE

\* Entries of the GET specification: two ids, a duplicate, a short abstract.
GetEntries ==
  {RawEntry(<<UrlA1>>, <<LongSummary>>, <<T1>>, 0), RawEntry(<<UrlB>>, <<LongSummary>>, <<T2>>, 0),
   RawEntry(<<UrlA2>>, <<LongSummary>>, <<T2>>, 0), RawEntry(<<UrlB>>, <<EdgeSummary>>, <<T1>>, 0)}

Init ==
  /\ pc = "idle"
  /\ maxResults = 0
  /\ offset = 0
  /\ qi = 1
  /\ allPapers = <<>>
  /\ seenIds = {}
  /\ papers = <<>>
  /\ threwAt = 0
  /\ nEntries = 0
  /\ firstEntry = [i \in Ids |-> NoPaper]
  /\ firstLong = [i \in Ids |-> NoPaper]
  /\ dropped = 0
  /\ calls = <<>>
  /\ NoRequest
  /\ NoContentCall
  /\ ViewMounted
  /\ Mounted \/ PageLoaded

QueryGetResponds == QueryResponds(GetEntries)
CallGetSettles == CallSettles(CoreOutcomes)

Next ==
  \/ FetchPapers
  \/ FetchMorePapers
  \/ OtherRequest
  \/ QueryGetResponds
  \/ QueryThrows
  \/ StartEnrichment
  \/ CallGetSettles
  \/ Respond
  \/ ResponseReceived

Spec == Init /\ [][Next]_vars

\* ------------------------------------------- processPaperWithLLM alone
EnrichPapers ==
  {BuildPaper(RawEntry(<<UrlA1>>, <<LongSummary>>, <<T1>>, 0)),
   BuildPaper(RawEntry(NoMatch, <<LongSummary>>, NoMatch, 1))}

InitEnrich ==
  /\ pc = "enrich"
  /\ maxResults = DefaultLimit
  /\ offset = DefaultOffset
  /\ qi = NumQueries
  /\ allPapers = <<>>
  /\ seenIds = {}
  /\ papers \in {<<p>> : p \in EnrichPapers}
  /\ threwAt = 0
  /\ nEntries = 0
  /\ firstEntry = [i \in Ids |-> NoPaper]
  /\ firstLong = [i \in Ids |-> NoPaper]
  /\ dropped = 0
  /\ calls = <<Pending>>
  /\ NoRequest
  /\ Mounted
  /\ NoContentCall
  /\ ViewMounted

CallAnySettles == CallSettles(AllOutcomes)

NextEnrich == CallAnySettles

SpecEnrich == InitEnrich /\ [][NextEnrich]_vars

\* --------------------------------------------- fetchFullPaperContent
\* Content route.ts lines 4-115. A document is a sequence of runs of characters
\* of one kind:
\*   "magic"    the two bytes 0x1F 0x8B at the start of a gzip file
\*   "binary"   characters outside [\x20-\x7E\n\r\t]
\*   "text"     letters, digits and . , ; : ! ? ( ) -
\*   "symbol"   other printable characters
\*   "ws"       whitespace
\*   "comment"  a LaTeX comment, from its % to the end of the line
\*   "command"  a LaTeX command with its braces, \name{...}
\*   "script"   a <script> or <style> element with its content
\*   "tag"      another HTML tag
\*   "header"   text lines 70-72 remove (the arXiv header, "Abstract .")
\* The first seven kinds make up what the e-print URL serves, the last three
\* with "text" and "ws" an HTML page.
Run(kind, n) == [kind |-> kind, n |-> n]

RECURSIVE Chars(_)
\* text.length of the document decoded as text.
Chars(doc) == IF doc = <<>> THEN 0 ELSE Head(doc).n + Chars(Tail(doc))

RECURSIVE PrintableChars(_)
\* Line 30: text.replace(/[^\x20-\x7E\n\r\t]/g, '').length
PrintableChars(doc) ==
  IF doc = <<>> THEN 0
  ELSE (IF Head(doc).kind \in {"magic", "binary"} THEN 0 ELSE Head(doc).n)
       + PrintableChars(Tail(doc))

\* Line 19: uint8Array[0] === 0x1f && uint8Array[1] === 0x8b
IsGzip(doc) == doc # <<>> /\ Head(doc).kind = "magic"

\* Line 33: printableChars / totalChars < 0.7; 0 / 0 is NaN and NaN < 0.7 is
\* false.
LooksBinary(doc) == Chars(doc) # 0 /\ PrintableChars(doc) * 10 < Chars(doc) * 7

RECURSIVE CollapsedLength(_, _, _, _, _)
\* The length after .replace(/\s+/g, ' ').trim() of a text in which the runs
\* of Spaces have become whitespace and those of Removed have been deleted
\* before; the runs of Late are deleted afterwards, so that the space on each
\* side of them stays.
CollapsedLength(doc, Spaces, Removed, Late, st) ==
  IF doc = <<>> THEN st.len
  ELSE LET r == Head(doc)
       IN IF r.kind \in Removed \/ r.n = 0
          THEN CollapsedLength(Tail(doc), Spaces, Removed, Late, st)
          ELSE IF r.kind \in Spaces
          THEN CollapsedLength(Tail(doc), Spaces, Removed, Late, [st EXCEPT !.gap = TRUE])
          ELSE CollapsedLength(Tail(doc), Spaces, Removed, Late,
                 [len |-> st.len + (IF st.gap /\ st.started THEN 1 ELSE 0)
                                 + (IF r.kind \in Late THEN 0 ELSE r.n),
                  started |-> TRUE, gap |-> FALSE])

Start == [len |-> 0, started |-> FALSE, gap |-> FALSE]

\* Lines 57-72: the length of the text extracted from an HTML page.
HtmlTextLength(doc) == CollapsedLength(doc, {"ws", "tag"}, {"script"}, {"header"}, Start)

\* Lines 91-96: the length of the text extracted from a LaTeX source.
LatexTextLength(doc) ==
  CollapsedLength(doc, {"ws", "symbol", "binary", "magic"}, {"comment", "command"}, {}, Start)

\* Lines 38, 74, 98.
MinContentLength == 1000

EPrintUrl(id) == <<"https://arxiv.org/e-print/", id>>
HtmlUrl(id) == <<"https://arxiv.org/html/", id>>

\* A string the call can return: the pieces of a fixed message, or a text of
\* `len` characters extracted by strategy `from` out of the document `of`.
Extracted(from, doc, len) == [from |-> from, of |-> doc, len |-> len, pieces |-> <<>>]

\* Line 109.
PlaceholderWithoutLink(id) ==
  [from |-> "none", of |-> <<>>, len |-> 0,
   pieces |-> <<"Full paper content extraction is currently unavailable.">>]
Placeholder(id) ==
  [from |-> "none", of |-> <<>>, len |-> 0,
   pieces |-> <<"Full paper content extraction is currently unavailable for this paper.",
                "Paper ID: ", id, "Direct PDF link: ", "https://arxiv.org/pdf/", id, ".pdf",
                "The automatic text extraction encountered issues. Please use the arXiv link above to view the full paper directly.">>]

\* What the awaited fetch of a strategy does: it rejects, it resolves with a
\* status that is not OK, it resolves OK and reading the body rejects, or it
\* resolves OK with the document upstream serves.
FetchRejects == [kind |-> "rejects", doc |-> <<>>]
NotOk == [kind |-> "notOk", doc |-> <<>>]
BodyRejects == [kind |-> "bodyRejects", doc |-> <<>>]
OkWith(doc) == [kind |-> "ok", doc |-> doc]
FetchOutcomes(doc) == {FetchRejects, NotOk, BodyRejects, OkWith(doc)}

\* How the body of a strategy's try block ends: it returns a text, it falls
\* out of the block, or it throws; `decoded` tells whether the document was
\* decoded as text.
Returns(text) == [kind |-> "returns", text |-> <<text>>, decoded |-> TRUE]
FallsThrough(decoded) == [kind |-> "falls", text |-> <<>>, decoded |-> decoded]
Throws(decoded) == [kind |-> "throws", text |-> <<>>, decoded |-> decoded]

\* Lines 11-42.
TextFormat(outcome) ==
  CASE outcome.kind \in {"rejects", "bodyRejects"} -> Throws(FALSE)
    [] outcome.kind = "notOk" -> FallsThrough(FALSE)
    [] OTHER ->
         IF IsGzip(outcome.doc) THEN Throws(FALSE)
         ELSE IF LooksBinary(outcome.doc) THEN Throws(TRUE)
         ELSE IF Chars(outcome.doc) > MinContentLength
              THEN Returns(Extracted("source", outcome.doc, Chars(outcome.doc)))
              ELSE FallsThrough(TRUE)

\* Lines 52-78.
HtmlExtraction(outcome) ==
  CASE outcome.kind \in {"rejects", "bodyRejects"} -> Throws(FALSE)
    [] outcome.kind = "notOk" -> FallsThrough(FALSE)
    [] OTHER ->
         IF HtmlTextLength(outcome.doc) > MinContentLength
         THEN Returns(Extracted("html", outcome.doc, HtmlTextLength(outcome.doc)))
         ELSE FallsThrough(TRUE)

\* Lines 86-102.
LatexSource(outcome) ==
  CASE outcome.kind \in {"rejects", "bodyRejects"} -> Throws(FALSE)
    [] outcome.kind = "notOk" -> FallsThrough(FALSE)
    [] OTHER ->
         IF LatexTextLength(outcome.doc) > MinContentLength
         THEN Returns(Extracted("latex", outcome.doc, LatexTextLength(outcome.doc)))
         ELSE FallsThrough(TRUE)

\* Lines 43-45, 79-81, 103-105: the catch of a strategy logs and goes on.
CatchRethrows(step) == step
Catch(step) == IF step.kind = "throws" THEN FallsThrough(step.decoded) ELSE step

\* Lines 111-114: the outer catch.
ErrorMessage(id) ==
  [from |-> "none", of |-> <<>>, len |-> 0,
   pieces |-> <<"Error fetching paper content for ", id, ". Please visit arXiv directly.">>]

\* Lines 8, 49, 86: the URL each strategy requests.
UrlOf(strategy, id) == IF strategy = "html" THEN HtmlUrl(id) ELSE EPrintUrl(id)

\* Lines 6, 47, 83: the strategy after `strategy` ("none" after the last).
NextStrategySwapped(strategy) ==
  CASE strategy = "source" -> "latex" [] strategy = "latex" -> "html" [] OTHER -> "none"
NextStrategy(strategy) ==
  CASE strategy = "source" -> "html" [] strategy = "html" -> "latex" [] OTHER -> "none"

\* The awaited fetch of `strategy` has settled with `outcome` and the body of
\* its try block, under its catch, ended as `step`: the text is returned, or
\* the next strategy's fetch is issued, or the placeholder is returned; what
\* escapes a strategy reaches the outer catch.
StrategyEnds(strategy, outcome, step) ==
  /\ got' = Append(got, [strategy |-> strategy, outcome |-> outcome, step |-> step])
  /\ CASE step.kind = "returns" ->
            /\ result' = step.text
            /\ fpc' = "done"
            /\ requests' = requests
       [] step.kind = "throws" ->
            /\ result' = <<ErrorMessage(arxivId)>>
            /\ fpc' = "done"
            /\ requests' = requests
       [] OTHER ->
            IF NextStrategy(strategy) = "none"
            THEN /\ result' = <<Placeholder(arxivId)>>
                 /\ fpc' = "done"
                 /\ requests' = requests
            ELSE /\ result' = result
                 /\ fpc' = NextStrategy(strategy)
                 /\ requests' = Append(requests, UrlOf(NextStrategy(strategy), arxivId))
  /\ UNCHANGED <<arxivId, eprint, htmlDoc>>

\* Lines 11-45.
SourceResponds ==
  /\ fpc = "source"
  /\ \E outcome \in FetchOutcomes(eprint) :
       StrategyEnds("source", outcome, Catch(TextFormat(outcome)))
  /\ UNCHANGED <<pc, searchVars, calls, getVars, clientVars, viewVars>>

\* Lines 52-81.
HtmlResponds ==
  /\ fpc = "html"
  /\ \E outcome \in FetchOutcomes(htmlDoc) :
       StrategyEnds("html", outcome, Catch(HtmlExtraction(outcome)))
  /\ UNCHANGED <<pc, searchVars, calls, getVars, clientVars, viewVars>>

\* Lines 86-109.
LatexResponds ==
  /\ fpc = "latex"
  /\ \E outcome \in FetchOutcomes(eprint) :
       StrategyEnds("latex", outcome, Catch(LatexSource(outcome)))
  /\ UNCHANGED <<pc, searchVars, calls, getVars, clientVars, viewVars>>

\* What the e-print URL serves: nothing, a text of just over and of exactly
\* 1000 characters, a LaTeX source, gzip files, files with just under and
\* exactly 70% of printable characters.
EPrintDocs ==
  {<<>>,
   <<Run("text", 1001)>>,
   <<Run("text", 1000)>>,
   <<Run("comment", 900), Run("ws", 1), Run("command", 20), Run("text", 500)>>,
   <<Run("magic", 2), Run("binary", 1500), Run("text", 600), Run("binary", 40), Run("text", 600)>>,
   <<Run("magic", 2), Run("binary", 800), Run("text", 300)>>,
   <<Run("text", 1399), Run("binary", 601)>>,
   <<Run("text", 1400), Run("binary", 600)>>,
   <<Run("text", 400), Run("symbol", 3), Run("text", 400)>>}

\* What the HTML URL serves: nothing, pages whose text has 1001, 1000, 1001,
\* 1000 and 1002 characters once extracted.
HtmlDocs ==
  {<<>>,
   <<Run("tag", 6), Run("text", 1001), Run("tag", 7)>>,
   <<Run("script", 5000), Run("tag", 3), Run("text", 1000)>>,
   <<Run("text", 500), Run("ws", 3), Run("tag", 4), Run("ws", 2), Run("text", 500)>>,
   <<Run("header", 40), Run("ws", 1), Run("text", 999)>>,
   <<Run("text", 999), Run("ws", 1), Run("header", 30), Run("ws", 1), Run("text", 1)>>}

ContentIds == {"2401.00001v1", "a"}

\* No request is being served.
PipelineIdle ==
  /\ pc = "idle"
  /\ maxResults = 0
  /\ offset = 0
  /\ qi = 1
  /\ allPapers = <<>>
  /\ seenIds = {}
  /\ papers = <<>>
  /\ threwAt = 0
  /\ nEntries = 0
  /\ firstEntry = [i \in Ids |-> NoPaper]
  /\ firstLong = [i \in Ids |-> NoPaper]
  /\ dropped = 0
  /\ calls = <<>>
  /\ NoRequest

\* Lines 4-11: fetchFullPaperContent is called; the first fetch is issued.
InitContent ==
  /\ PipelineIdle
  /\ Mounted
  /\ ViewMounted
  /\ arxivId \in ContentIds
  /\ eprint \in EPrintDocs
  /\ htmlDoc \in HtmlDocs
  /\ fpc = "source"
  /\ requests = <<EPrintUrl(arxivId)>>
  /\ got = <<>>
  /\ result = <<>>

NextContent == SourceResponds \/ HtmlResponds \/ LatexResponds

SpecContent == InitContent /\ [][NextContent]_vars

\* ------------------------------------------ GET /papers/{id}/content
\* Content route.ts lines 122-151. params.id is "" when the id is missing.
RECURSIVE PiecesLength(_)
PiecesLength(pieces) ==
  IF pieces = <<>> THEN 0 ELSE Len(Head(pieces)) + PiecesLength(Tail(pieces))

\* content.length of a string fetchFullPaperContent returned.
ContentLength(text) == IF text.pieces = <<>> THEN text.len ELSE PiecesLength(text.pieces)

\* Lines 130-133.
IdRequired == [status |-> 400, body |-> [error |-> "Paper ID is required"]]

\* Lines 139-143.
ContentEnvelopeOfText(id, content) ==
  [status |-> 200,
   body |-> [id |-> id, content |-> content, hasContent |-> content.from # "none"]]
ContentEnvelope(id, content) ==
  [status |-> 200,
   body |-> [id |-> id, content |-> content, hasContent |-> ContentLength(content) > 0]]

\* Lines 127-137: GET is called; without an id it answers 400, with one it
\* calls fetchFullPaperContent, which issues its first fetch.
ContentGETCalled ==
  /\ fpc = "idle" /\ response = <<>>
  /\ IF arxivId = ""
     THEN /\ response' = <<IdRequired>>
          /\ UNCHANGED <<fpc, requests>>
     ELSE /\ fpc' = "source"
          /\ requests' = <<EPrintUrl(arxivId)>>
          /\ response' = response
  /\ UNCHANGED <<arxivId, eprint, htmlDoc, got, result>>
  /\ UNCHANGED <<pc, searchVars, calls, query, origin, clientVars, viewVars>>

\* Lines 137-143: fetchFullPaperContent has returned; the envelope is sent.
ContentRespond ==
  /\ fpc = "done" /\ response = <<>>
  /\ response' = <<ContentEnvelope(arxivId, result[1])>>
  /\ UNCHANGED <<pc, searchVars, calls, query, origin, clientVars, fetcherVars, viewVars>>

\* A request for the content of a paper, or without an id, has arrived.
InitContentGET ==
  /\ PipelineIdle
  /\ Mounted
  /\ ViewMounted
  /\ arxivId \in ContentIds \cup {""}
  /\ eprint \in EPrintDocs
  /\ htmlDoc \in HtmlDocs
  /\ fpc = "idle"
  /\ requests = <<>>
  /\ got = <<>>
  /\ result = <<>>

NextContentGET ==
  \/ ContentGETCalled
  \/ SourceResponds
  \/ HtmlResponds
  \/ LatexResponds
  \/ ContentRespond

SpecContentGET == InitContentGET /\ [][NextContentGET]_vars

\* ------------------------------------------------------- client (Home)
\* Client lines 178-363 and the buttons of lines 383-630. A paper of the client
\* is its id and its content ("" until fetched); the handlers read no other
\* field. A bookmark is a paper with its bookmarkedAt.
ClientPaper(k) == [id |-> "p" \o ToString(k), content |-> ""]

\* The papers numbered first .. first + n - 1, as one response lists them.
Page(first, n) == [i \in 1..n |-> ClientPaper(first + i - 1)]

\* JSON.stringify of a bookmark list and JSON.parse of the stored text.
Stringify(list) == [json |-> list]
Parse(text) == text.json

\* Client lines 198-202: the effect that runs after a render in which
\* bookmarks changed: what the storage entry holds afterwards.
SaveBookmarks(list) == IF Len(list) > 0 THEN <<Stringify(list)>> ELSE storage

\* Client lines 190-195: the bookmarks the mount effect loads.
LoadBookmarks == IF storage # <<>> THEN Parse(storage[1]) ELSE <<>>

\* Client line 294 (indexes are from 0): <<>> is undefined.
CurrentPaperOf(list) == IF currentIndex < Len(list) THEN <<list[currentIndex + 1]>> ELSE <<>>
CurrentPaper == IF showBookmarks THEN CurrentPaperOf(bookmarks) ELSE CurrentPaperOf(clientPapers)

\* Client lines 367-392: the cards and their buttons are rendered.
MainView == ~isLoading /\ CurrentPaper # <<>>

NothingInFlight == [fetchPapers |-> 0, fetchMorePapers |-> <<>>, handleFlip |-> <<>>]

\* The papers the user bookmarks or asks the content of: the last of a full
\* first page.
Picked == {"p10"}

HasId(list, id) == \E i \in 1..Len(list) : list[i].id = id

\* Client lines 328-335: handleScroll, from the keys (lines 246-255, at any
\* time) or from the buttons of lines 579 and 587.
HandleScroll(direction) ==
  /\ currentIndex' =
       IF direction = "up" /\ currentIndex > 0 THEN currentIndex - 1
       ELSE IF direction = "down" /\ currentIndex < Len(clientPapers) - 1 THEN currentIndex + 1
       ELSE currentIndex
  /\ isFlipped' = FALSE
  /\ UNCHANGED <<clientPapers, bookmarks, showBookmarks, loadingContent, storage, inFlight>>
  /\ UNCHANGED <<pc, searchVars, calls, getVars, clientVars, fetcherVars>>

ScrollUp == HandleScroll("up")
ScrollDown == HandleScroll("down")

\* Client lines 407-411: the Bookmarks button.
ToggleBookmarks ==
  /\ MainView
  /\ showBookmarks' = ~showBookmarks
  /\ currentIndex' = 0
  /\ isFlipped' = FALSE
  /\ UNCHANGED <<clientPapers, bookmarks, loadingContent, storage, inFlight>>
  /\ UNCHANGED <<pc, searchVars, calls, getVars, clientVars, fetcherVars>>

\* Client lines 273-282: the Escape key.
Escape ==
  /\ IF showBookmarks
     THEN showBookmarks' = FALSE /\ currentIndex' = 0 /\ isFlipped' = FALSE
     ELSE showBookmarks' = showBookmarks /\ currentIndex' = currentIndex /\ isFlipped' = FALSE
  /\ UNCHANGED <<clientPapers, bookmarks, loadingContent, storage, inFlight>>
  /\ UNCHANGED <<pc, searchVars, calls, getVars, clientVars, fetcherVars>>

\* Client lines 319-326 with the save effect of lines 198-202: handleBookmark
\* on the current paper, from the key (lines 261-267) or the button of line 598.
Toggled(list, paper) ==
  IF HasId(list, paper.id)
  THEN SelectSeq(list, LAMBDA b : b.id # paper.id)
  ELSE Append(list, [id |-> paper.id, content |-> paper.content, bookmarkedAt |-> NowIso])

HandleBookmark ==
  /\ CurrentPaper # <<>>
  /\ CurrentPaper[1].id \in Picked
  /\ bookmarks' = Toggled(bookmarks, CurrentPaper[1])
  /\ storage' = SaveBookmarks(bookmarks')
  /\ UNCHANGED <<clientPapers, currentIndex, isFlipped, showBookmarks, loadingContent, inFlight>>
  /\ UNCHANGED <<pc, searchVars, calls, getVars, clientVars, fetcherVars>>

\* What the client's fetch of /api/papers gives: the envelope with a page (only
\* its papers are read), an error status, or nothing (the fetch rejects).
PageResponse(page) == [status |-> 200, body |-> [papers |-> page]]
ErrorStatus == [status |-> 500, body |-> [papers |-> <<>>]]
Unreachable == [status |-> 0, body |-> [papers |-> <<>>]]

\* Answers to limit=10: a full page, a short one, an empty one, failures.
FirstPages ==
  {PageResponse(Page(1, InitialPageLimit)), PageResponse(Page(1, 2)), PageResponse(<<>>),
   ErrorStatus, Unreachable}

\* Answers to limit=20&offset=n: papers not seen yet, papers of which one was
\* in the first page already, an empty page, failures.
MorePages ==
  {PageResponse(Page(InitialPageLimit + 1, 2)), PageResponse(Page(InitialPageLimit, 2)),
   PageResponse(<<>>), ErrorStatus, Unreachable}

\* Client lines 204-207: fetchPapers up to its awaited fetch, from the mount
\* effect (line 291), the R key (line 271) or a Refresh button (383, 416).
StartFetchPapers ==
  /\ inFlight.fetchPapers < MaxRefreshes
  /\ isLoading' = TRUE
  /\ inFlight' = [inFlight EXCEPT !.fetchPapers = @ + 1]
  /\ UNCHANGED <<clientLen, hasMore, loadingMore>>
  /\ UNCHANGED <<clientPapers, bookmarks, currentIndex, isFlipped, showBookmarks, loadingContent,
                 storage>>
  /\ UNCHANGED <<pc, searchVars, calls, getVars, fetcherVars>>

\* Client lines 207-216: an awaited fetch of fetchPapers settles.
FetchPapersSettles ==
  /\ inFlight.fetchPapers > 0
  /\ \E r \in FirstPages :
       /\ FetchPapersDone(r)
       /\ clientPapers' = IF r.status = 200 THEN r.body.papers ELSE clientPapers
  /\ inFlight' = [inFlight EXCEPT !.fetchPapers = @ - 1]
  /\ UNCHANGED <<bookmarks, currentIndex, isFlipped, showBookmarks, loadingContent, storage>>
  /\ UNCHANGED <<pc, searchVars, calls, getVars, fetcherVars>>

\* Client lines 614-622: the Load More button is rendered and enabled.
LoadMoreButton ==
  /\ MainView
  /\ ~showBookmarks /\ hasMore /\ currentIndex >= Len(clientPapers) - 5
  /\ ~loadingMore

\* Client line 220: fetchMorePapers goes on past its first line.
FetchMorePapersGuard == ~(loadingMore \/ ~hasMore)

\* Client lines 219-225: the Load More button calls fetchMorePapers, which
\* runs up to its awaited fetch; inFlight.fetchMorePapers lists the awaited
\* fetches by the offset each sent.
StartFetchMorePapers ==
  /\ LoadMoreButton
  /\ FetchMorePapersGuard
  /\ Len(clientPapers) < MaxPapers
  /\ loadingMore' = TRUE
  /\ inFlight' = [inFlight EXCEPT !.fetchMorePapers = Append(@, Len(clientPapers))]
  /\ UNCHANGED <<clientLen, hasMore, isLoading>>
  /\ UNCHANGED <<clientPapers, bookmarks, currentIndex, isFlipped, showBookmarks, loadingContent,
                 storage>>
  /\ UNCHANGED <<pc, searchVars, calls, getVars, fetcherVars>>

\* Client lines 225-239: the awaited fetch of fetchMorePapers settles.
FetchMorePapersSettles ==
  /\ \E i \in 1..Len(inFlight.fetchMorePapers), r \in MorePages :
       /\ Len(clientPapers) + Len(r.body.papers) <= MaxPapers
       /\ FetchMorePapersDone(r)
       /\ clientPapers' = IF r.status = 200 /\ Len(r.body.papers) > 0
                          THEN clientPapers \o r.body.papers ELSE clientPapers
       /\ inFlight' = [inFlight EXCEPT !.fetchMorePapers =
                         SubSeq(@, 1, i - 1) \o SubSeq(@, i + 1, Len(@))]
  /\ UNCHANGED <<bookmarks, currentIndex, isFlipped, showBookmarks, loadingContent, storage>>
  /\ UNCHANGED <<pc, searchVars, calls, getVars, fetcherVars>>

\* Client lines 337-341, 362: handleFlip, from the keys (lines 256-260) or a
\* click on the card (line 436). It either runs up to its awaited content
\* fetch, keeping the showBookmarks of the render it was created in and that
\* render's bookmarks or papers (the list it will map), or it only flips the
\* card.
HandleFlip ==
  /\ IF ~isFlipped /\ CurrentPaper # <<>> /\ CurrentPaper[1].content = "" /\ loadingContent = <<>>
     THEN /\ CurrentPaper[1].id \in Picked
          /\ loadingContent' = <<CurrentPaper[1].id>>
          /\ inFlight' = [inFlight EXCEPT !.handleFlip =
                            <<[id |-> CurrentPaper[1].id, showBookmarks |-> showBookmarks,
                               list |-> IF showBookmarks THEN bookmarks ELSE clientPapers]>>]
          /\ isFlipped' = isFlipped
     ELSE /\ isFlipped' = ~isFlipped
          /\ UNCHANGED <<loadingContent, inFlight>>
  /\ UNCHANGED <<clientPapers, bookmarks, currentIndex, showBookmarks, storage>>
  /\ UNCHANGED <<pc, searchVars, calls, getVars, clientVars, fetcherVars>>

\* Client lines 347-353: list.map(p => p.id === id ? {...p, content} : p)
Filled(list, id, content) ==
  [i \in 1..Len(list) |-> IF list[i].id = id THEN [list[i] EXCEPT !.content = content]
                          ELSE list[i]]

\* Client lines 342-362: the awaited content fetch settles, OK with the
\* content or not; the card is flipped.
ContentFetchSettles ==
  /\ inFlight.handleFlip # <<>>
  /\ LET c == inFlight.handleFlip[1]
     IN \E ok \in BOOLEAN :
          /\ bookmarks' = IF ok /\ c.showBookmarks
                          THEN Filled(c.list, c.id, "full text") ELSE bookmarks
          /\ storage' = IF ok /\ c.showBookmarks THEN SaveBookmarks(bookmarks') ELSE storage
          /\ clientPapers' = IF ok /\ ~c.showBookmarks
                             THEN Filled(c.list, c.id, "full text") ELSE clientPapers
  /\ clientLen' = Len(clientPapers')
  /\ loadingContent' = <<>>
  /\ isFlipped' = TRUE
  /\ inFlight' = [inFlight EXCEPT !.handleFlip = <<>>]
  /\ UNCHANGED <<hasMore, isLoading, loadingMore, currentIndex, showBookmarks>>
  /\ UNCHANGED <<pc, searchVars, calls, getVars, fetcherVars>>

\* The page is loaded anew: the state hooks start over, the mount effects load
\* the stored bookmarks (lines 190-195) and call fetchPapers (line 291); what
\* was awaited is gone with the old page.
Reload ==
  /\ clientLen' = 0
  /\ hasMore' = TRUE
  /\ isLoading' = TRUE
  /\ loadingMore' = FALSE
  /\ clientPapers' = <<>>
  /\ bookmarks' = LoadBookmarks
  /\ currentIndex' = 0
  /\ isFlipped' = FALSE
  /\ showBookmarks' = FALSE
  /\ loadingContent' = <<>>
  /\ storage' = SaveBookmarks(bookmarks')
  /\ inFlight' = [NothingInFlight EXCEPT !.fetchPapers = 1]
  /\ UNCHANGED <<pc, searchVars, calls, getVars, fetcherVars>>

\* A stored entry the page may find when it is first loaded.
StoredAtStart == {<<>>, <<Stringify(<<[id |-> "p10", content |-> "", bookmarkedAt |-> NowIso]>>)>>}

\* The page has been loaded: the hooks hold their initial values but for the
\* stored bookmarks, and the fetch of fetchPapers is awaited.
InitClient ==
  /\ PipelineIdle
  /\ NoContentCall
  /\ Mounted
  /\ storage \in StoredAtStart
  /\ clientPapers = <<>>
  /\ bookmarks = LoadBookmarks
  /\ currentIndex = 0
  /\ isFlipped = FALSE
  /\ showBookmarks = FALSE
  /\ loadingContent = <<>>
  /\ inFlight = [NothingInFlight EXCEPT !.fetchPapers = 1]

NextClient ==
  \/ ScrollUp
  \/ ScrollDown
  \/ ToggleBookmarks
  \/ Escape
  \/ HandleBookmark
  \/ HandleFlip
  \/ ContentFetchSettles
  \/ StartFetchPapers
  \/ FetchPapersSettles
  \/ StartFetchMorePapers
  \/ FetchMorePapersSettles
  \/ Reload

SpecClient == InitClient /\ [][NextClient]_vars

\* ================================================================ claims
Returned == pc = "returned"

NoTwoSameId(list) == \A i, j \in 1..Len(list) : i # j => list[i].id # list[j].id

\* C1 as stated: the list searchArxivPapers returns holds no two papers with
\* the same id, and each paper in it is the one built from the first raw entry
\* encountered, in query order, that carries its id.
C1_FirstEntryKept ==
  Returned =>
    /\ NoTwoSameId(papers)
    /\ \A i \in 1..Len(papers) : <<papers[i]>> = firstEntry[papers[i].id]

\* C1 amended: no two papers of allPapers or of the returned list share an id,
\* and each is the one built from the first raw entry encountered, in query
\* order, that carries its id and has a normalized abstract longer than 100.
C1_FirstLongEntryKept ==
  /\ NoTwoSameId(allPapers)
  /\ NoTwoSameId(papers)
  /\ \A i \in 1..Len(allPapers) : <<allPapers[i]>> = firstLong[allPapers[i].id]
  /\ \A i \in 1..Len(papers) : <<papers[i]>> = firstLong[papers[i].id]

\* C1 witness: a search returned a paper of id "a" built from the first URL
\* after an entry of the same id under the other URL was dropped.
C1_Witness ==
  /\ Returned
  /\ dropped > 0
  /\ \E i \in 1..Len(papers) : papers[i].id = "a" /\ papers[i].arxivUrl = UrlA1

\* C2: the returned list has at most maxResults elements and is ordered by
\* publishedAt descending: of two papers whose publishedAt parses as a timestamp
\* the earlier in the list is not the older one (wherever the papers with an
\* unparsable publishedAt are placed).
C2_SortedAndLimited ==
  Returned =>
    /\ Len(papers) <= maxResults
    /\ \A i, j \in 1..Len(papers) :
         (i < j /\ ~GetTime(papers[i].publishedAt).nan /\ ~GetTime(papers[j].publishedAt).nan)
           => GetTime(papers[i].publishedAt).t >= GetTime(papers[j].publishedAt).t

\* C3: no paper of allPapers or of the returned list has a normalized abstract
\* of 100 characters or fewer; seenIds holds exactly the ids of the papers
\* pushed, so an id first met on a short entry is pushed with its first long one.
C3_ShortAbstractDiscarded ==
  /\ \A i \in 1..Len(allPapers) : Length(allPapers[i].abstract) > AbstractMinLength
  /\ \A i \in 1..Len(papers) : Length(papers[i].abstract) > AbstractMinLength
  /\ seenIds = {allPapers[i].id : i \in 1..Len(allPapers)}
  /\ \A id \in Ids : firstLong[id] # NoPaper => \E i \in 1..Len(allPapers) : allPapers[i].id = id

\* C3 witness: the first entry of id "a" was short, a later one was long, and
\* the returned list holds the paper of the later one.
C3_Witness ==
  /\ Returned
  /\ firstEntry["a"] # NoPaper
  /\ Length(firstEntry["a"][1].abstract) <= AbstractMinLength
  /\ \E i \in 1..Len(papers) : papers[i].id = "a"

\* C4: when the fetch of one query throws, that query contributes nothing and
\* the papers gathered from the other queries are still returned (sorted and
\* limited as usual).
C4_FailedQuerySkipped ==
  (Returned /\ threwAt # 0) => papers = SortAndLimit(allPapers, maxResults)

\* ------------------------------------------------------------ enrichment
Responded == pc = "responded"
Failed(i) == Settled(i) /\ calls[i][1].outcome.kind \in {"ctorThrows", "rejects"}
Result(i) == calls[i][1].result

NonEmptyString(v) == v.type = "string" /\ v.str # ""

\* C6: when the completion call raises (create() rejects, or constructing the
\* client throws), processPaperWithLLM does not raise and returns the input
\* paper with the four fixed default strings.
C6_RaisingCallGivesDefaults ==
  \A i \in 1..Len(calls) :
    Failed(i) =>
      /\ ~Result(i).threw
      /\ Result(i).paper # <<>>
      /\ Result(i).paper[1].id = papers[i].id
      /\ Result(i).paper[1].abstract = papers[i].abstract
      /\ Result(i).paper[1].tag = JsString("ML research")
      /\ Result(i).paper[1].question = JsString("Q: Research question not extracted")
      /\ Result(i).paper[1].answer = JsString("A: Core idea not extracted")
      /\ Result(i).paper[1].bet = JsString("Philosophical assumption not extracted")

\* C6 witness: a call whose completion request rejected has settled.
C6_Witness == \E i \in 1..Len(calls) : Settled(i) /\ calls[i][1].outcome.kind = "rejects"

\* The object a completion text is the JSON text of, fences and surrounding
\* whitespace aside: <<its properties>>, or <<>> when the text is anything else.
ObjectIn(outcome) ==
  IF outcome.kind # "resolves" \/ outcome.content = <<>> THEN <<>>
  ELSE LET text == outcome.content[1]
           js == SelectSeq(text, LAMBDA part : part.kind = "json")
       IN IF Len(js) = 1 /\ js[1].type = "object"
             /\ \A k \in 1..Len(text) : text[k].kind \in {"json", "fence", "ws"}
          THEN <<js[1].fields>> ELSE <<>>

FixedDefault(f) ==
  CASE f = "tag" -> "ML research"
    [] f = "question" -> "Q: Research question not extracted"
    [] f = "answer" -> "A: Core idea not extracted"
    [] f = "bet" -> "Philosophical assumption not extracted"

FieldOf(paper, f) ==
  CASE f = "tag" -> paper.tag
    [] f = "question" -> paper.question
    [] f = "answer" -> paper.answer
    [] f = "bet" -> paper.bet

\* C7 as stated: when the completion text is valid JSON for an object, fenced
\* or not, each field present in the object keeps exactly its parsed value and
\* each field absent from it gets its own fixed default.
C7_PresentFieldKept ==
  \A i \in 1..Len(calls) :
    (Settled(i) /\ ObjectIn(calls[i][1].outcome) # <<>>) =>
      \A f \in FieldNames :
        LET parsed == ObjectIn(calls[i][1].outcome)[1][f]
        IN FieldOf(Result(i).paper[1], f) =
             IF parsed # JsUndefined THEN parsed ELSE JsString(FixedDefault(f))

\* C7 amended: when the completion text is valid JSON for an object, fenced or
\* not, each field is set on its own: a field present with a truthy value (not
\* null, "", 0) keeps exactly that value, and a field absent from the object or
\* present with a falsy value gets its own fixed default.
C7_TruthyFieldKept ==
  \A i \in 1..Len(calls) :
    (Settled(i) /\ ObjectIn(calls[i][1].outcome) # <<>>) =>
      /\ ~Result(i).threw
      /\ \A f \in FieldNames :
           LET parsed == ObjectIn(calls[i][1].outcome)[1][f]
           IN FieldOf(Result(i).paper[1], f) =
                IF parsed \in {JsUndefined, JsNull, JsString(""), JsZero}
                THEN JsString(FixedDefault(f)) ELSE parsed

\* C7 witness: a fenced object without a bet but with the other three fields
\* was parsed: the bet is the default and the tag is the parsed one.
C7_Witness ==
  \E i \in 1..Len(calls) :
    /\ Settled(i)
    /\ ObjectIn(calls[i][1].outcome) # <<>>
    /\ calls[i][1].outcome.content[1][1].kind = "fence"
    /\ ObjectIn(calls[i][1].outcome)[1]["bet"] = JsUndefined
    /\ ObjectIn(calls[i][1].outcome)[1]["tag"] = JsString("x")
    /\ ObjectIn(calls[i][1].outcome)[1]["question"] = JsEmptyArray
    /\ Result(i).paper[1].tag = JsString("x")
    /\ Result(i).paper[1].bet = JsString("Philosophical assumption not extracted")

\* ------------------------------------------------------------ GET /papers
Ok == Responded /\ response[1].status = 200
RequestedLimit == IF query.limit = <<>> THEN 30 ELSE query.limit[1]
RequestedOffset == IF query.offset = <<>> THEN 0 ELSE query.offset[1]

\* C5: when a search request fails at the network layer, searchArxivPapers
\* returns an empty list, GET /papers with limit >= 1 answers 200 with
\* papers = [], total = 0 and hasMore = false, and the client that sent the
\* request (fetchPapers or fetchMorePapers) ends with hasMore = false.
C5_SearchFailureIsEmptyPage ==
  /\ (pc \in {"returned", "enrich", "responded"} /\ threwAt # 0) => papers = <<>>
  /\ (Responded /\ threwAt # 0 /\ RequestedLimit >= 1) =>
       /\ response[1].status = 200
       /\ response[1].body.papers = <<>>
       /\ response[1].body.total = 0
       /\ response[1].body.hasMore = FALSE
  /\ (pc = "idle" /\ threwAt # 0 /\ origin \in {"fetchPapers", "fetchMorePapers"}) =>
       hasMore = FALSE

\* C5 witness: fetchMorePapers has received the answer to a request whose
\* search failed.
C5_Witness == pc = "idle" /\ threwAt # 0 /\ origin = "fetchMorePapers" /\ ~loadingMore

\* C8: every paper of every 200 response has a non-empty tag, question,
\* answer and bet, whatever each completion call did.
C8_FieldsNonEmpty ==
  Ok => \A i \in 1..Len(response[1].body.papers) :
          \A f \in FieldNames : NonEmptyString(FieldOf(response[1].body.papers[i], f))

\* C9: in every 200 response total is the number of papers, offset the
\* requested offset (0 when not given) and hasMore is true exactly when the
\* number of papers is at least the requested limit (30 when not given).
C9_EnvelopeCounts ==
  Ok => /\ response[1].body.total = Len(response[1].body.papers)
        /\ response[1].body.offset = RequestedOffset
        /\ response[1].body.hasMore = (Len(response[1].body.papers) >= RequestedLimit)

\* C9 witness: a 200 response to a request with limit 2 and an offset holds two
\* papers, and one to a request without parameters holds one.
C9_Witness ==
  /\ Ok
  /\ \/ query.limit = <<2>> /\ query.offset # <<>> /\ Len(response[1].body.papers) = 2
     \/ query.limit = <<>> /\ query.offset = <<>> /\ Len(response[1].body.papers) = 1

\* C10: the answer is 200 with the complete envelope or 500 with the generic
\* error message and nothing else; the enrichment of a paper failing never
\* makes the answer a 500.
C10_EnvelopeOrGenericError ==
  Responded =>
    /\ response[1].status \in {200, 500}
    /\ response[1].status = 200 =>
         /\ DOMAIN response[1].body = {"papers", "total", "offset", "hasMore", "categories"}
         /\ Len(response[1].body.papers) = Len(papers)
    /\ response[1].status = 500 => response[1].body = [error |-> "Failed to fetch papers"]
    /\ (\E i \in 1..Len(calls) : Failed(i)) => response[1].status = 200

\* C10 witness: a 200 response with two papers, the enrichment of one of them
\* having failed.
C10_Witness ==
  /\ Ok
  /\ Len(response[1].body.papers) = 2
  /\ Failed(1) /\ ~Failed(2)

\* ------------------------------------------------- fetchFullPaperContent
ContentDone == fpc = "done"
StrategyOrder == <<"source", "html", "latex">>

\* The strategy of the history entry g failed: its fetch rejected, answered
\* with a status that is not OK, its body could not be read, or (raw source)
\* the payload was a gzip file or looked binary.
FailedStrategy(g) ==
  \/ g.outcome.kind # "ok"
  \/ g.strategy = "source" /\ (IsGzip(g.outcome.doc) \/ LooksBinary(g.outcome.doc))

\* The number of characters the strategy of g extracted from its document.
ExtractedLength(g) ==
  CASE g.strategy = "source" -> Chars(g.outcome.doc)
    [] g.strategy = "html" -> HtmlTextLength(g.outcome.doc)
    [] OTHER -> LatexTextLength(g.outcome.doc)

\* C11: fetchFullPaperContent ends by returning a string, never by raising,
\* and a strategy that failed (network error, non-OK status, unreadable body,
\* gzip or binary payload) only ends that strategy: the next strategy is
\* requested, and after the last one the placeholder is returned.
C11_StrategyFailureIsLocal ==
  /\ ContentDone => Len(result) = 1
  /\ \A k \in 1..Len(got) :
       FailedStrategy(got[k]) =>
         IF k < Len(StrategyOrder)
         THEN Len(requests) >= k + 1 /\ requests[k + 1] = UrlOf(StrategyOrder[k + 1], arxivId)
         ELSE result = <<Placeholder(arxivId)>>

\* C11 witness: the first fetch rejected, the body of the second could not be
\* read and the third strategy returned a text.
C11_Witness ==
  /\ ContentDone /\ Len(got) = 3
  /\ got[1].outcome.kind = "rejects"
  /\ got[2].outcome.kind = "bodyRejects"
  /\ got[3].step.kind = "returns"

C13_PlaceholderWhenAllFail ==
  (/\ ContentDone
   /\ Len(got) = 3
   /\ \A k \in 1..3 : FailedStrategy(got[k]) \/ ExtractedLength(got[k]) < 1000) =>
    /\ result = <<Placeholder(arxivId)>>
    /\ \E i \in 1..Len(result[1].pieces) - 1 :
         result[1].pieces[i] = "Paper ID: " /\ result[1].pieces[i + 1] = arxivId
    /\ \E i \in 1..Len(result[1].pieces) - 2 :
         /\ result[1].pieces[i] = "https://arxiv.org/pdf/"
         /\ result[1].pieces[i + 1] = arxivId
         /\ result[1].pieces[i + 2] = ".pdf"

\* C13 witness: the source was short, the HTML request was answered with a
\* status that is not OK and the LaTeX text was short.
C13_Witness ==
  /\ ContentDone /\ Len(got) = 3
  /\ got[1].outcome.kind = "ok" /\ ~FailedStrategy(got[1])
  /\ got[2].outcome.kind = "notOk"
  /\ got[3].outcome.kind = "ok" /\ ExtractedLength(got[3]) < 1000 /\ ExtractedLength(got[3]) > 0

\* C17: the strategies are requested in the order raw source, HTML, LaTeX;
\* a strategy that extracted more than 1000 characters is the last one, its
\* text is the result and nothing is requested after it; so a strategy is
\* requested only when every earlier one failed or extracted too little.
C17_StrategiesInOrder ==
  /\ Len(requests) <= 3 /\ Len(got) <= Len(requests)
  /\ \A k \in 1..Len(requests) : requests[k] = UrlOf(StrategyOrder[k], arxivId)
  /\ \A k \in 1..Len(got) :
       /\ got[k].strategy = StrategyOrder[k]
       /\ (~FailedStrategy(got[k]) /\ ExtractedLength(got[k]) > 1000) =>
            /\ ContentDone
            /\ k = Len(got) /\ k = Len(requests)
            /\ result = <<Extracted(StrategyOrder[k], got[k].outcome.doc, ExtractedLength(got[k]))>>
  /\ \A k \in 2..Len(requests) :
       \A j \in 1..(k - 1) : FailedStrategy(got[j]) \/ ExtractedLength(got[j]) <= 1000

\* C17 witness: the raw source was too short and the HTML strategy returned
\* its text.
C17_Witness ==
  /\ ContentDone /\ Len(got) = 2
  /\ ~FailedStrategy(got[1])
  /\ got[2].step.kind = "returns" /\ result[1].from = "html"

\* ------------------------------------------------- enrichment frame
\* The fields of `paper` that the parser set are those of `before`.
SameParsedFields(paper, before) ==
  /\ paper.id = before.id
  /\ paper.title = before.title
  /\ paper.authors = before.authors
  /\ paper.abstract = before.abstract
  /\ paper.arxivUrl = before.arxivUrl
  /\ paper.publishedAt = before.publishedAt

\* C15 as stated: whatever the completion call did, the paper
\* processPaperWithLLM returns has the id, title, authors, abstract, url and
\* publishedAt of its input, and no content (the field is absent).
C15_ContentAbsent ==
  \A i \in 1..Len(calls) :
    (Settled(i) /\ ~Result(i).threw) =>
      /\ SameParsedFields(Result(i).paper[1], papers[i])
      /\ Result(i).paper[1].content = <<>>

\* C15 amended: whatever the completion call did, the paper
\* processPaperWithLLM returns has the id, title, authors, abstract, url and
\* publishedAt of its input, and its content is the empty string.
C15_ContentEmpty ==
  \A i \in 1..Len(calls) :
    Settled(i) =>
      /\ ~Result(i).threw
      /\ SameParsedFields(Result(i).paper[1], papers[i])
      /\ Result(i).paper[1].content = <<"">>

\* C15 witness: a call whose completion was a JSON object has settled, and so
\* has one whose completion request rejected.
C15_Witness ==
  \E i \in 1..Len(calls) :
    /\ Settled(i)
    /\ \/ calls[i][1].outcome.kind = "rejects" /\ papers[i].publishedAt # NowIso
       \/ /\ calls[i][1].outcome.kind = "resolves"
          /\ Result(i).paper[1].tag = JsString("x")
          /\ papers[i].publishedAt # NowIso

\* ------------------------------------------------- concurrent enrichment
\* C18: whatever the order in which the completion calls of a request settle
\* and whatever each did, the response is sent only once all have settled,
\* and its papers are the enriched papers of the fetcher's papers, one each,
\* in the fetcher's order.
C18_OneEnrichedPaperEach ==
  Responded =>
    /\ \A i \in 1..Len(calls) : Settled(i)
    /\ response[1].status = 200
    /\ Len(response[1].body.papers) = Len(papers)
    /\ \A i \in 1..Len(papers) :
         /\ SameParsedFields(response[1].body.papers[i], papers[i])
         /\ response[1].body.papers[i] = Result(i).paper[1]

\* C18 witness: the response to a request with two papers whose second call
\* settled first, one of the two having failed.
C18_Witness ==
  /\ Ok
  /\ Len(papers) = 2
  /\ calls[2][1].nth = 1 /\ calls[1][1].nth = 2
  /\ Failed(2) /\ ~Failed(1)
  /\ papers[1].id # papers[2].id

\* ---------------------------------------------------------------- client
\* C14: after every change to the bookmark list the storage entry holds the
\* new list, so that a reload gives back the list the user last saw, also
\* when the last bookmark has been removed.
C14_StorageHoldsBookmarks == LoadBookmarks = bookmarks

\* C16: no two papers of the client's list have the same id.
C16_UniqueIds ==
  \A i, j \in 1..Len(clientPapers) : i # j => clientPapers[i].id # clientPapers[j].id

\* C19: whenever the displayed list (the bookmarks in the bookmarks view, the
\* papers otherwise) is not empty, currentIndex is an index of it.
C19_IndexInDisplayedList ==
  /\ (showBookmarks /\ Len(bookmarks) > 0) => (0 <= currentIndex /\ currentIndex < Len(bookmarks))
  /\ (~showBookmarks /\ Len(clientPapers) > 0) =>
       (0 <= currentIndex /\ currentIndex < Len(clientPapers))

\* C20: the step in which a content fetch started by handleFlip completes
\* keeps every paper of the client's list in its place and changes nothing
\* of them but the content of papers with the fetched id.
C20_ContentFetchKeepsPapers ==
  [][(inFlight.handleFlip # <<>> /\ inFlight'.handleFlip = <<>> /\ isFlipped') =>
       /\ Len(clientPapers') = Len(clientPapers)
       /\ \A i \in 1..Len(clientPapers) :
            /\ clientPapers'[i].id = clientPapers[i].id
            /\ clientPapers[i].id # inFlight.handleFlip[1].id =>
                 clientPapers'[i] = clientPapers[i]]_vars

\* A fetch of fetchMorePapers settles for good or for bad, if it is awaited.
SpecClientFair == SpecClient /\ WF_vars(FetchMorePapersSettles)

\* C21: at most one fetch of fetchMorePapers is awaited at a time; one is
\* sent only in a step that starts with loadingMore false, hasMore true and
\* none awaited; the step in which one settles, with papers, an error status
\* or a rejection, leaves loadingMore false; and loadingMore, once true,
\* becomes false again.
C21_OneLoadMoreAtATime ==
  /\ [](Len(inFlight.fetchMorePapers) <= 1)
  /\ [](loadingMore <=> inFlight.fetchMorePapers # <<>>)
  /\ [][Len(inFlight'.fetchMorePapers) > Len(inFlight.fetchMorePapers) =>
         /\ ~loadingMore /\ hasMore
         /\ inFlight.fetchMorePapers = <<>>
         /\ loadingMore']_vars
  /\ [][Len(inFlight'.fetchMorePapers) < Len(inFlight.fetchMorePapers) => ~loadingMore']_vars
  /\ (loadingMore ~> ~loadingMore)

\* C21 witness: a fetch of fetchMorePapers has settled with papers, which
\* were appended, and loadingMore is false again.
C21_Witness ==
  /\ Len(clientPapers) > InitialPageLimit
  /\ ~loadingMore
  /\ inFlight.fetchMorePapers = <<>>
  /\ ~hasMore

\* ------------------------------------------ GET /papers/{id}/content
\* C22: every 200 response has a content of at least one character and
\* hasContent true, also when the three strategies failed; a request without
\* an id is answered 400 and no fetch is issued for it.
C22_ContentNeverEmpty ==
  response # <<>> =>
    /\ response[1].status \in {200, 400}
    /\ response[1].status = 200 =>
         /\ arxivId # ""
         /\ ContentDone /\ response[1].body.content = result[1]
         /\ \/ response[1].body.content.len > 0
            \/ \E i \in 1..Len(response[1].body.content.pieces) :
                 response[1].body.content.pieces[i] # ""
         /\ response[1].body.hasContent = TRUE
    /\ response[1].status = 400 <=> arxivId = ""
    /\ response[1].status = 400 => requests = <<>> /\ got = <<>>

\* C22 witness: the 200 response to a request whose three strategies failed.
C22_Witness ==
  /\ response # <<>> /\ response[1].status = 200
  /\ Len(got) = 3
  /\ \A k \in 1..3 : FailedStrategy(got[k])

====
